---- MODULE Spec2Model ----
(***************************************************************************)
(* Model of src/strategies.py: the example strategies RandomMove,          *)
(* Alphabetical, FirstMove and Anarchy.  The chess library (legal moves,   *)
(* SAN/UCI rendering, push/pop) and the analysis engine are external; a    *)
(* position is a record that carries what the strategies read from them.   *)
(***************************************************************************)
EXTENDS Integers, Sequences, FiniteSets, TLC

VARIABLES strategy, board, board0, timeLeft, legalMoves, searchTime, idx,
          bestEvaluation, bestMove, pc, result, calls, pushes, pops

vars == <<strategy, board, board0, timeLeft, legalMoves, searchTime, idx,
          bestEvaluation, bestMove, pc, result, calls, pushes, pops>>

\* ------------------------------------------------------------------ bounds
\* Longest legal-move list enumerated for a position.
MaxMoves == 3

\* ------------------------------------------------------- rational numbers
\* Seconds are exact rationals num/den with den > 0.
Rat(n, d) == [num |-> n, den |-> d]
RDivInt(r, k) == [num |-> r.num, den |-> r.den * k]
RMulInt(k, r) == [num |-> k * r.num, den |-> r.den]
RSub(a, b) == [num |-> a.num * b.den - b.num * a.den, den |-> a.den * b.den]
RGt(a, b) == a.num * b.den > b.num * a.den
REq(a, b) == a.num * b.den = b.num * a.den
RLeq(a, b) == a.num * b.den <= b.num * a.den

\* ------------------------------------------------------------ the moves
\* A move as the chess library renders it: str(move) (UCI), board.san(move)
\* in the position searched, board.is_en_passant(move), and the side it
\* belongs to.  Strings are sequences of one-character strings.
WHITE == TRUE
BLACK == FALSE

Moves ==
  << [uci |-> <<"a","2","a","3">>, san |-> <<"a","3">>,             ep |-> FALSE, side |-> WHITE],
     [uci |-> <<"g","1","f","3">>, san |-> <<"N","f","3">>,         ep |-> FALSE, side |-> WHITE],
     [uci |-> <<"e","2","e","4">>, san |-> <<"e","4">>,             ep |-> FALSE, side |-> WHITE],
     [uci |-> <<"f","1","b","5">>, san |-> <<"B","b","5">>,         ep |-> FALSE, side |-> WHITE],
     [uci |-> <<"e","1","e","2">>, san |-> <<"K","e","2">>,         ep |-> FALSE, side |-> WHITE],
     [uci |-> <<"a","1","a","4">>, san |-> <<"R","a","4">>,         ep |-> FALSE, side |-> WHITE],
     [uci |-> <<"a","1","a","4">>, san |-> <<"R","a","4","+">>,     ep |-> FALSE, side |-> WHITE],
     [uci |-> <<"e","5","d","6">>, san |-> <<"e","x","d","6">>,     ep |-> TRUE,  side |-> WHITE],
     [uci |-> <<"a","7","a","6">>, san |-> <<"a","6">>,             ep |-> FALSE, side |-> BLACK],
     [uci |-> <<"d","8","e","7">>, san |-> <<"K","x","e","7">>,     ep |-> FALSE, side |-> BLACK],
     [uci |-> <<"d","8","e","7">>, san |-> <<"K","e","7","+">>,     ep |-> FALSE, side |-> BLACK],
     [uci |-> <<"h","4","a","4">>, san |-> <<"R","h","x","a","4">>, ep |-> FALSE, side |-> BLACK],
     [uci |-> <<"a","8","a","4">>, san |-> <<"R","a","4","#">>,     ep |-> FALSE, side |-> BLACK] >>

MoveIds == 1..Len(Moves)
NoMove == 0

Uci(m) == Moves[m].uci
San(m) == Moves[m].san
is_en_passant(m) == Moves[m].ep

\* ------------------------------------------------------- string ordering
\* Python orders str by code point.
CharCode(c) ==
  CASE c = "#" -> 35 [] c = "+" -> 43
    [] c = "1" -> 49 [] c = "2" -> 50 [] c = "3" -> 51 [] c = "4" -> 52
    [] c = "5" -> 53 [] c = "6" -> 54 [] c = "7" -> 55 [] c = "8" -> 56
    [] c = "B" -> 66 [] c = "K" -> 75 [] c = "N" -> 78 [] c = "R" -> 82
    [] c = "a" -> 97 [] c = "b" -> 98 [] c = "d" -> 100 [] c = "e" -> 101
    [] c = "f" -> 102 [] c = "g" -> 103 [] c = "h" -> 104 [] c = "x" -> 120

RECURSIVE StrLess(_, _)
StrLess(s, t) ==
  IF t = <<>> THEN FALSE
  ELSE IF s = <<>> THEN TRUE
  ELSE IF CharCode(Head(s)) # CharCode(Head(t))
       THEN CharCode(Head(s)) < CharCode(Head(t))
       ELSE StrLess(Tail(s), Tail(t))

\* list.sort(key=...) is stable: an element goes after the elements whose
\* key is not greater.  Entries are <<key, move>> pairs.
RECURSIVE InsertByKey(_, _)
InsertByKey(sorted, e) ==
  IF sorted = <<>> THEN <<e>>
  ELSE IF StrLess(e[1], Head(sorted)[1])
       THEN <<e>> \o sorted
       ELSE <<Head(sorted)>> \o InsertByKey(Tail(sorted), e)

RECURSIVE SortByKey(_)
SortByKey(pairs) ==
  IF pairs = <<>> THEN <<>>
  ELSE InsertByKey(SortByKey(SubSeq(pairs, 1, Len(pairs) - 1)), pairs[Len(pairs)])

\* ------------------------------------------------------------ positions
InitialFen == "rnbqkbnr/pppppppp/8/8/8/8/PPPPPPPP/RNBQKBNR"
OpenGameFen == "rnbqkbnr/pppp1ppp/8/4p3/4P3/8/PPPP1PPP/RNBQKBNR"
KnightsFen == "r1bqkbnr/pppp1ppp/2n5/4p3/4P3/5N2/PPPP1PPP/RNBQKB1R"
\* Stands for every placement that is none of the three snapshots.
OtherFen == "other"

Placements == {InitialFen, OpenGameFen, KnightsFen, OtherFen}

\* board.board_fen(): the placement, here the placement searched plus the
\* moves applied to it since.
Fen(base, applied) == [base |-> base, applied |-> applied]
board_fen(b) == b.fen

E2E4 == <<"e","2","e","4">>
G1F3 == <<"g","1","f","3">>
F1B5 == <<"f","1","b","5">>

OpeningReply_NoInitial(fen) ==
  IF fen = Fen(OpenGameFen, <<>>) THEN G1F3
  ELSE IF fen = Fen(KnightsFen, <<>>) THEN F1B5
  ELSE <<>>

\* The hard-coded reply of the opening book, <<>> when the placement is
\* none of the three snapshots.
OpeningReply(fen) ==
  IF fen = Fen(InitialFen, <<>>) THEN E2E4
  ELSE IF fen = Fen(OpenGameFen, <<>>) THEN G1F3
  ELSE IF fen = Fen(KnightsFen, <<>>) THEN F1B5
  ELSE <<>>

RECURSIVE SeqsUpTo(_)
SeqsUpTo(n) ==
  IF n = 0 THEN {<<>>}
  ELSE LET shorter == SeqsUpTo(n - 1)
       IN shorter \cup {Append(s, m) : s \in {t \in shorter : Len(t) = n - 1}, m \in MoveIds}

\* What the chess rules guarantee of a legal-move list: the moves are the
\* mover's, no two share a UCI string, and in the three opening placements
\* no en passant capture exists and the book reply (a white move) is legal
\* exactly when White is to move.  The initial placement only occurs with
\* White to move (each side needs an even number of moves to restore it).
BookMoveOf(base) ==
  CASE base = InitialFen -> E2E4
    [] base = OpenGameFen -> G1F3
    [] base = KnightsFen -> F1B5

LegalList(base, turn, ms) ==
  /\ ms # <<>>
  /\ \A i \in 1..Len(ms) : Moves[ms[i]].side = turn
  /\ \A i, j \in 1..Len(ms) : i # j => Uci(ms[i]) # Uci(ms[j])
  /\ base = InitialFen => turn = WHITE
  /\ base # OtherFen =>
       /\ \A i \in 1..Len(ms) : ~is_en_passant(ms[i])
       /\ (turn = WHITE) <=> (\E i \in 1..Len(ms) : Uci(ms[i]) = BookMoveOf(base))

Board(base, turn, ms) ==
  [fen |-> Fen(base, <<>>), turn |-> turn, rights |-> 1, legal |-> ms, stack |-> <<>>]

Positions ==
  {Board(base, turn, ms) : <<base, turn, ms>> \in
     {p \in Placements \X BOOLEAN \X SeqsUpTo(MaxMoves) : LegalList(p[1], p[2], p[3])}}

\* board.push(move): the position after the move, the prior state saved.
Push(b, m) ==
  [fen |-> Fen(b.fen.base, Append(b.fen.applied, m)),
   turn |-> ~b.turn,
   rights |-> IF San(m)[1] \in {"K", "R"} THEN 0 ELSE b.rights,
   legal |-> <<>>,
   stack |-> Append(b.stack, [move |-> m, fen |-> b.fen, turn |-> b.turn,
                              rights |-> b.rights, legal |-> b.legal])]

Pop_KeepsRights(b) ==
  LET top == b.stack[Len(b.stack)]
  IN [fen |-> top.fen, turn |-> top.turn, rights |-> b.rights,
      legal |-> top.legal, stack |-> SubSeq(b.stack, 1, Len(b.stack) - 1)]

\* board.pop(): restores the state saved by the last push.
Pop(b) ==
  LET top == b.stack[Len(b.stack)]
  IN [fen |-> top.fen, turn |-> top.turn, rights |-> top.rights,
      legal |-> top.legal, stack |-> SubSeq(b.stack, 1, Len(b.stack) - 1)]

\* ---------------------------------------------------------- time budgets
\* The driver passes the mover's clock in milliseconds, or a
\* chess.engine.Limit object on the first move.
ClockMs == {0, 50, 100, 1000, 1500, 60000}
TimeBudgets == {[isLimit |-> TRUE, ms |-> 0]} \cup {[isLimit |-> FALSE, ms |-> t] : t \in ClockMs}

\* Base search time per move, 0.1 s.
BaseSearchTime == Rat(1, 10)
\* Margin evaluate() takes off the budget, 0.01 s.
SafetyMargin == Rat(1, 100)

SearchTime_NoSplit(tl, n) ==
  IF tl.isLimit THEN BaseSearchTime
  ELSE LET secs == RDivInt(Rat(tl.ms, 1), 1000)
       IN IF RGt(RMulInt(n, BaseSearchTime), RDivInt(secs, 10))
          THEN RDivInt(secs, 10)
          ELSE BaseSearchTime

\* searchTime as search() computes it from timeLeft and len(legalMoves).
SearchTime(tl, n) ==
  IF tl.isLimit THEN BaseSearchTime
  ELSE LET secs == RDivInt(Rat(tl.ms, 1), 1000)
       IN IF RGt(RMulInt(n, BaseSearchTime), RDivInt(secs, 10))
          THEN RDivInt(RDivInt(secs, 10), n)
          ELSE BaseSearchTime

\* The time limit evaluate() hands to the engine.
EvaluateLimit(timeLimit) == RSub(timeLimit, SafetyMargin)

\* ------------------------------------------------------ per-move rules
LastTwo(s) == IF Len(s) <= 2 THEN s ELSE SubSeq(s, Len(s) - 1, Len(s))

IsForcedKing_PlainOnly(san) ==
  \/ san = <<"K","e","2">>
  \/ san = <<"K","e","7">>

IsForcedKing(san) ==
  \/ san = <<"K","e","2">>
  \/ san = <<"K","e","7">>
  \/ san = <<"K","x","e","2">>
  \/ san = <<"K","x","e","7">>

IsBanned(san) == san[1] = "R" /\ LastTwo(san) = <<"a","4">>

Better_NotStrict(best, evaluation) == best = <<>> \/ best[1] >= evaluation

\* bestEvaluation is <<>> for None, <<score>> otherwise.
Better(best, evaluation) == best = <<>> \/ best[1] > evaluation

\* Relative scores the engine may report.
Scores == {-1, 0, 1}

\* ------------------------------------------------------------- results
Unset == [kind |-> "unset", move |-> NoMove, str |-> <<>>]
ReturnMove(m) == IF m = NoMove THEN [kind |-> "none", move |-> NoMove, str |-> <<>>]
                 ELSE [kind |-> "move", move |-> m, str |-> <<>>]
ReturnStr(s) == [kind |-> "str", move |-> NoMove, str |-> s]

Strategies == {"RandomMove", "Alphabetical", "FirstMove", "Anarchy"}

RECURSIVE KeyedBySan(_)
KeyedBySan(ms) == IF ms = <<>> THEN <<>> ELSE <<<<San(Head(ms)), Head(ms)>>>> \o KeyedBySan(Tail(ms))

RECURSIVE KeyedByStr(_)
KeyedByStr(ms) == IF ms = <<>> THEN <<>> ELSE <<<<Uci(Head(ms)), Head(ms)>>>> \o KeyedByStr(Tail(ms))

\* --------------------------------------------------------------- Init
Init ==
  /\ strategy \in Strategies
  /\ board \in Positions
  /\ board0 = board
  /\ timeLeft \in TimeBudgets
  /\ legalMoves = <<>>
  /\ searchTime = Rat(0, 1)
  /\ idx = 0
  /\ bestEvaluation = <<>>
  /\ bestMove = NoMove
  /\ pc = "call"
  /\ result = Unset
  /\ calls = <<>>
  /\ pushes = 0
  /\ pops = 0

Frame == UNCHANGED <<strategy, board0, timeLeft>>
AnarchyIdle == UNCHANGED <<legalMoves, searchTime, idx, bestEvaluation, bestMove, calls, pushes, pops>>

\* ----------------------------------------------- the one-step strategies
RandomMoveSearch ==
  /\ pc = "call" /\ strategy = "RandomMove"
  /\ \E k \in 1..Len(board.legal) : result' = ReturnMove(board.legal[k])
  /\ pc' = "done"
  /\ UNCHANGED board /\ Frame /\ AnarchyIdle

AlphabeticalSearch ==
  /\ pc = "call" /\ strategy = "Alphabetical"
  /\ result' = ReturnMove(SortByKey(KeyedBySan(board.legal))[1][2])
  /\ pc' = "done"
  /\ UNCHANGED board /\ Frame /\ AnarchyIdle

FirstMoveSearch ==
  /\ pc = "call" /\ strategy = "FirstMove"
  /\ result' = ReturnMove(SortByKey(KeyedByStr(board.legal))[1][2])
  /\ pc' = "done"
  /\ UNCHANGED board /\ Frame /\ AnarchyIdle

\* ------------------------------------------------------- Anarchy.search
\* Lines 130-145: the legal moves, the per-move budget, the best so far.
AnarchyBegin ==
  /\ pc = "call" /\ strategy = "Anarchy"
  /\ legalMoves' = board.legal
  /\ searchTime' = SearchTime(timeLeft, Len(board.legal))
  /\ bestEvaluation' = <<>>
  /\ bestMove' = NoMove
  /\ idx' = 1
  /\ pc' = "loop"
  /\ UNCHANGED <<board, result, calls, pushes, pops>> /\ Frame

AtCandidate == pc = "loop" /\ strategy = "Anarchy" /\ idx <= Len(legalMoves)
LoopFrame == UNCHANGED <<legalMoves, searchTime, bestEvaluation, bestMove>> /\ Frame

\* "en passant is forced"
AnarchyEnPassant ==
  /\ AtCandidate
  /\ is_en_passant(legalMoves[idx])
  /\ result' = ReturnMove(legalMoves[idx])
  /\ pc' = "done"
  /\ UNCHANGED <<board, idx, calls, pushes, pops>> /\ LoopFrame

\* "play the ruy lopez": the reply is returned as a string.
AnarchyOpening ==
  /\ AtCandidate
  /\ ~is_en_passant(legalMoves[idx])
  /\ OpeningReply(board_fen(board)) # <<>>
  /\ result' = ReturnStr(OpeningReply(board_fen(board)))
  /\ pc' = "done"
  /\ UNCHANGED <<board, idx, calls, pushes, pops>> /\ LoopFrame

\* "always play the bongcloud"
AnarchyKing ==
  /\ AtCandidate
  /\ ~is_en_passant(legalMoves[idx])
  /\ OpeningReply(board_fen(board)) = <<>>
  /\ IsForcedKing(San(legalMoves[idx]))
  /\ result' = ReturnMove(legalMoves[idx])
  /\ pc' = "done"
  /\ UNCHANGED <<board, idx, calls, pushes, pops>> /\ LoopFrame

Scorable(m) ==
  /\ ~is_en_passant(m)
  /\ OpeningReply(board_fen(board)) = <<>>
  /\ ~IsForcedKing(San(m))

\* "never play rook a4": the candidate is skipped, the loop goes on.
AnarchySkipBanned ==
  /\ AtCandidate
  /\ Scorable(legalMoves[idx])
  /\ IsBanned(San(legalMoves[idx]))
  /\ idx' = idx + 1
  /\ UNCHANGED <<board, pc, result, calls, pushes, pops>> /\ LoopFrame

\* board.push(move), then evaluate() queries the engine.
AnarchyPush ==
  /\ AtCandidate
  /\ Scorable(legalMoves[idx])
  /\ ~IsBanned(San(legalMoves[idx]))
  /\ board' = Push(board, legalMoves[idx])
  /\ pushes' = pushes + 1
  /\ pc' = "analyse"
  /\ UNCHANGED <<idx, result, calls, pops>> /\ LoopFrame

\* The engine answers: compare with the best so far, then board.pop().
AnarchyScore ==
  /\ pc = "analyse"
  /\ \E score \in Scores :
       /\ calls' = Append(calls, [move |-> legalMoves[idx], timeLimit |-> searchTime,
                                  limit |-> EvaluateLimit(searchTime),
                                  turn |-> board.turn, score |-> score])
       /\ IF Better(bestEvaluation, score)
          THEN bestEvaluation' = <<score>> /\ bestMove' = legalMoves[idx]
          ELSE UNCHANGED <<bestEvaluation, bestMove>>
  /\ board' = Pop(board)
  /\ pops' = pops + 1
  /\ idx' = idx + 1
  /\ pc' = "loop"
  /\ UNCHANGED <<legalMoves, searchTime, result, pushes>> /\ Frame

\* The engine fails: analyse() raises and nothing in search() catches it.
AnarchyOracleFails ==
  /\ pc = "analyse"
  /\ pc' = "raised"
  /\ UNCHANGED <<board, legalMoves, searchTime, idx, bestEvaluation, bestMove,
                 result, calls, pushes, pops>> /\ Frame

\* Line 185: every candidate was examined.
AnarchyReturnBest ==
  /\ pc = "loop" /\ strategy = "Anarchy" /\ idx > Len(legalMoves)
  /\ result' = ReturnMove(bestMove)
  /\ pc' = "done"
  /\ UNCHANGED <<board, idx, calls, pushes, pops>> /\ LoopFrame

Next ==
  \/ RandomMoveSearch
  \/ AlphabeticalSearch
  \/ FirstMoveSearch
  \/ AnarchyBegin
  \/ AnarchyEnPassant
  \/ AnarchyOpening
  \/ AnarchyKing
  \/ AnarchySkipBanned
  \/ AnarchyPush
  \/ AnarchyScore
  \/ AnarchyOracleFails
  \/ AnarchyReturnBest

Spec == Init /\ [][Next]_vars

TypeOK ==
  /\ pc \in {"call", "loop", "analyse", "done", "raised"}
  /\ idx \in 0..(MaxMoves + 1)
  /\ bestMove \in MoveIds \cup {NoMove}

\* ================================================================ claims
Anarchy == strategy = "Anarchy"
N0 == Len(board0.legal)
Cand(i) == board0.legal[i]

InLegalMoves(r) ==
  \/ r.kind = "move" /\ \E i \in 1..N0 : Cand(i) = r.move
  \/ r.kind = "str" /\ \E i \in 1..N0 : Uci(Cand(i)) = r.str

\* The notation denotes a rook move to a4, whatever the variant.
DenotesRookA4(san) ==
  LET core == IF san[Len(san)] \in {"+", "#"} THEN SubSeq(san, 1, Len(san) - 1) ELSE san
  IN core[1] = "R" /\ Len(core) >= 3 /\ core[Len(core) - 1] = "a" /\ core[Len(core)] = "4"

KingLiterals == {<<"K","e","2">>, <<"K","e","7">>, <<"K","x","e","2">>, <<"K","x","e","7">>}
OpeningSnapshot == board0.fen.base \in {InitialFen, OpenGameFen, KnightsFen}
Trigger(i) == is_en_passant(Cand(i)) \/ San(Cand(i)) \in KingLiterals
EpIndices == {i \in 1..N0 : is_en_passant(Cand(i))}

\* C1: whenever a strategy returns on a position with a non-empty legal-move
\* list, the value returned is one of the position's legal moves, unless the
\* strategy is Anarchy and every legal move is a banned rook move to a4.
C1_ReturnsLegalMove ==
  pc = "done" =>
    \/ InLegalMoves(result)
    \/ Anarchy /\ \A i \in 1..N0 : DenotesRookA4(San(Cand(i)))

\* C2: in Anarchy.search, when exactly one candidate is an en passant
\* capture, that candidate is returned and the engine is asked about no
\* other candidate.
C2_EnPassantForced ==
  (Anarchy /\ Cardinality(EpIndices) = 1) =>
    LET e == CHOOSE i \in EpIndices : TRUE
    IN /\ pc = "done" => result = ReturnMove(Cand(e))
       /\ pc = "analyse" => idx = e
       /\ \A k \in 1..Len(calls) : calls[k].move = Cand(e)

C4_PushPopSymmetry ==
  (Anarchy /\ pc = "done") => board = board0

C4_Witness ==
  /\ Anarchy /\ pc = "done" /\ pushes >= 2
  /\ \E k \in 1..Len(calls) : San(calls[k].move)[1] = "K"

\* C5: a candidate that is a rook move to a4, in any notation variant, is
\* never applied to the position, never sent to the engine and never the
\* best move of the scored fallback.
C5_BannedNeverApplied ==
  Anarchy =>
    /\ pc = "analyse" => ~DenotesRookA4(San(legalMoves[idx]))
    /\ \A k \in 1..Len(calls) : ~DenotesRookA4(San(calls[k].move))
    /\ bestMove # NoMove => ~DenotesRookA4(San(bestMove))

\* C6: with the initial placement and a non-empty legal-move list,
\* Anarchy.search returns "e2e4" and never invokes the engine, whatever the
\* time budget.
C6_InitialPlacementReply ==
  (Anarchy /\ board0.fen.base = InitialFen) =>
    /\ calls = <<>> /\ pushes = 0
    /\ pc \notin {"analyse", "raised"}
    /\ pc = "done" => result = ReturnStr(<<"e","2","e","4">>)

C6_Witness ==
  /\ Anarchy /\ pc = "done" /\ board0.fen.base = InitialFen
  /\ ~timeLeft.isLimit /\ N0 >= 2

NotBannedMove(m) == ~(San(m)[1] = "R" /\ LastTwo(San(m)) = <<"a","4">>)
NoShortCircuit == ~OpeningSnapshot /\ \A i \in 1..N0 : ~Trigger(i)

FirstTrigger == CHOOSE i \in 1..N0 : Trigger(i) /\ \A j \in 1..(i - 1) : ~Trigger(j)
KingFirst ==
  /\ Anarchy /\ ~OpeningSnapshot
  /\ \E i \in 1..N0 : Trigger(i)
  /\ San(Cand(FirstTrigger)) \in KingLiterals

C9_PositiveLimit ==
  (Anarchy /\ ~timeLeft.isLimit /\ timeLeft.ms > 0) =>
    \A k \in 1..Len(calls) : calls[k].limit.num > 0

\* C10: at most one candidate is applied at any point of a search call, and
\* when the call ends, by a return or by an engine failure, reverts equal
\* applies and no candidate is left applied.
C10_StackDiscipline ==
  Anarchy =>
    /\ pushes - pops <= 1
    /\ Len(board.stack) <= Len(board0.stack) + 1
    /\ pc \in {"done", "raised"} => pushes = pops /\ board.stack = board0.stack

====
